---- MODULE Spec2Model ----
(***************************************************************************)
(* Voxel batch synthesis (datasets/geometric_3d_dataset.py) and the voxel  *)
(* tensor transforms (layers/layer_utils.py) of 3d_conv.                   *)
(*                                                                         *)
(* An n-d boolean array is held as [shape |-> <<d1,..,dn>>, on |-> S],     *)
(* S the set of offsets, in the array's row-major (C order) buffer, of the *)
(* cells that are 1; Ravel and Unravel convert 0-based index tuples.       *)
(* Real numbers are held exactly, as integers counting 1/Units: the value  *)
(* np.random.rand() returns is drawn from {k/Units : k \in 0..Units-1}.    *)
(* The sources are Python 2 (xrange): / on two ints is floor division.     *)
(***************************************************************************)
EXTENDS Integers, Sequences, FiniteSets, TLC

VARIABLES self, rng, call, raised, draw, solid_figures, data, labels,
          the_5d_input, args, result,
          dataset, occupancy_grid, batch_x, batch_y

vars == <<self, rng, call, raised, draw, solid_figures, data, labels,
          the_5d_input, args, result, dataset, occupancy_grid, batch_x, batch_y>>

\* the state of Model_Net_Iterator.next
model_net == <<dataset, occupancy_grid, batch_x, batch_y>>

\* ---------------------------------------------------------------- bounds
MaxBatch == 2
Units == 2
MaxOn == 2
MaxFactor == 2

\* ------------------------------------------------- geometric_3d_dataset.py
SPHERE_TYPE == 0
DIAMOND_TYPE == 1
CUBE_TYPE == 2

CLASSIFICATION_TASK == 0
KINECT_COMPLETION_TASK == 1
HALF_COMPLETION_TASK == 2

\* names bound at module level by the import statements and the class statement
ModuleGlobals == {"np", "math", "Geometric3DDataset"}

NoArray == [shape |-> <<>>, on |-> {}]
\* the arguments of the last call: of __init__ (init), of a transform (factor, matrix)
NoConfig == [batch_size |-> 0, patch_size |-> 0, task |-> 0, centered |-> FALSE]
NoArgs == [factor |-> 0, matrix |-> <<>>, init |-> NoConfig]
NoDraw == [centre |-> <<>>, radius |-> <<>>, types |-> <<>>]
NoDataset == [patch_size |-> 0]
NoObject == [constructed |-> FALSE, num_labels |-> 0, batch_size |-> 0,
             patch_size |-> 0, task |-> 0, centered |-> FALSE]

\* inputs of the constructor
BatchSizes == (-1)..MaxBatch
PatchSizes == {6, 7, 8, 9, 16}
UncentredPatchSizes == {8}
LargeBatchPatchSizes == {8, 9}
TaskValues == 0..3
ConfigInputs == {c \in [batch_size : BatchSizes, patch_size : PatchSizes,
                        task : TaskValues, centered : BOOLEAN] :
                    \/ c.patch_size <= 7
                    \/ c.centered /\ c.patch_size \in LargeBatchPatchSizes
                    \/ c.centered /\ c.batch_size <= 2
                    \/ c.patch_size \in UncentredPatchSizes /\ c.batch_size <= 2}

\* numerators k of the values k/Units that np.random.rand() returns, in [0, 1)
RandSet == 0..(Units - 1)

Max(a, b) == IF a >= b THEN a ELSE b
Min(a, b) == IF a <= b THEN a ELSE b
Abs(a) == IF a >= 0 THEN a ELSE -a

\* math.floor and math.ceil of the real a/Units
Floor(a) == a \div Units
Ceil(a) == -((-a) \div Units)

\* the offset of index tuple ix in the row-major buffer of an array of this shape
RECURSIVE RavelFrom(_, _, _, _)
RavelFrom(shape, ix, k, acc) ==
    IF k > Len(shape) THEN acc ELSE RavelFrom(shape, ix, k + 1, acc * shape[k] + ix[k])
Ravel(shape, ix) == RavelFrom(shape, ix, 1, 0)

\* the index tuple of offset f
RECURSIVE UnravelFrom(_, _, _, _)
UnravelFrom(shape, f, k, acc) ==
    IF k = 0 THEN acc
    ELSE UnravelFrom(shape, f \div shape[k], k - 1, <<f % shape[k]>> \o acc)
Unravel(shape, f) == UnravelFrom(shape, f, Len(shape), <<>>)

\* Ravel and Unravel for the 5-d (batch, depth, channel, row, column) arrays
Ravel5(s, ix) == (((ix[1] * s[2] + ix[2]) * s[3] + ix[3]) * s[4] + ix[4]) * s[5] + ix[5]
Unravel5(s, f) ==
    <<f \div (s[2] * s[3] * s[4] * s[5]), (f \div (s[3] * s[4] * s[5])) % s[2],
      (f \div (s[4] * s[5])) % s[3], (f \div s[5]) % s[4], f % s[5]>>

\* the number of cells
RECURSIVE SizeFrom(_, _)
SizeFrom(shape, k) == IF k > Len(shape) THEN 1 ELSE shape[k] * SizeFrom(shape, k + 1)
Size(shape) == SizeFrom(shape, 1)

\* the cell at index tuple ix
At(arr, ix) == Ravel5(arr.shape, ix) \in arr.on

\* the element of a one-element set: The({F(x) : x \in {e}}) is F(e), with e
\* evaluated once
The(S) == CHOOSE r \in S : TRUE

\* zeros of the given shape
Zeros(shape) == [shape |-> shape, on |-> {}]

Init__RejectsBelowSeven(batch_size, patch_size, task, centered) ==
    IF patch_size < 7
    THEN [raised |-> "NotImplementedError", self |-> NoObject]
    ELSE [raised |-> "none",
          self |-> [constructed |-> TRUE, num_labels |-> 3, batch_size |-> batch_size,
                    patch_size |-> patch_size, task |-> task, centered |-> centered]]

\* __init__
Init__(batch_size, patch_size, task, centered) ==
    IF patch_size <= 7
    THEN [raised |-> "NotImplementedError", self |-> NoObject]
    ELSE [raised |-> "none",
          self |-> [constructed |-> TRUE, num_labels |-> 3, batch_size |-> batch_size,
                    patch_size |-> patch_size, task |-> task, centered |-> centered]]

\* the centre (x0, y0, z0), in 1/Units; cu are the numerators np.random.rand returned
Centre(obj, cu) ==
    LET mid == Units * ((obj.patch_size - 1) \div 2)
    IN  IF obj.centered
        THEN <<mid, mid, mid>>
        ELSE IF obj.task = HALF_COMPLETION_TASK
             THEN <<mid, cu[2] * (obj.patch_size - 1), cu[3] * (obj.patch_size - 1)>>
             ELSE <<cu[1] * (obj.patch_size - 1), cu[2] * (obj.patch_size - 1),
                    cu[3] * (obj.patch_size - 1)>>

RadiusFromFullPatch(obj, k) == (obj.patch_size - 3) * k + 3 * Units

RadiusWithoutMinimum(obj, k) == ((obj.patch_size \div 2) - 3) * k

\* the radius of one sample, in 1/Units; k is the numerator np.random.rand returned
Radius(obj, k) == ((obj.patch_size \div 2) - 3) * k + 3 * Units

BoundingBoxFloorLow(obj, c, r) ==
    <<Max(Floor(c[1] - r), 0), Max(Floor(c[2] - r), 0), Max(Floor(c[3] - r), 0),
      Min(Floor(c[1] + r), obj.patch_size - 1), Min(Floor(c[2] + r), obj.patch_size - 1),
      Min(Floor(c[3] + r), obj.patch_size - 1)>>

BoundingBoxExclusiveHigh(obj, c, r) ==
    <<Max(Ceil(c[1] - r), 0), Max(Ceil(c[2] - r), 0), Max(Ceil(c[3] - r), 0),
      Min(Floor(c[1] + r), obj.patch_size - 1) - 1, Min(Floor(c[2] + r), obj.patch_size - 1) - 1,
      Min(Floor(c[3] + r), obj.patch_size - 1) - 1>>

\* the clipped bounding box of one sample: <<x_min, y_min, z_min, x_max, y_max, z_max>>
BoundingBox(obj, c, r) ==
    <<Max(Ceil(c[1] - r), 0), Max(Ceil(c[2] - r), 0), Max(Ceil(c[3] - r), 0),
      Min(Floor(c[1] + r), obj.patch_size - 1), Min(Floor(c[2] + r), obj.patch_size - 1),
      Min(Floor(c[3] + r), obj.patch_size - 1)>>

InSphere(x, y, z, c, r) ==
    (x * Units - c[1]) * (x * Units - c[1]) + (y * Units - c[2]) * (y * Units - c[2])
        + (z * Units - c[3]) * (z * Units - c[3]) <= r * r

InDiamond(x, y, z, c, r) ==
    Abs(x * Units - c[1]) + Abs(y * Units - c[2]) + Abs(z * Units - c[3]) <= r

VoxelIndexXFirst(i, x, y, z) == <<i, x, 0, y, z>>

\* the index written for voxel (x, y, z) of sample i
VoxelIndex(i, x, y, z) == <<i, z, 0, x, y>>

BatchShapeExtraSample(obj) ==
    <<obj.batch_size + 1, obj.patch_size, 1, obj.patch_size, obj.patch_size>>

\* the shape of a batch of volumes
BatchShape(obj) ==
    <<obj.batch_size, obj.patch_size, 1, obj.patch_size, obj.patch_size>>

\* the cells one pass of the loop over the batch sets to 1 (sample i, 0-based)
SolidFigure(obj, i, type, c, r) ==
    LET bb == BoundingBox(obj, c, r)
        box == {v \in (bb[1]..bb[4]) \X (bb[2]..bb[5]) \X (bb[3]..bb[6]) :
                    CASE type = SPHERE_TYPE -> InSphere(v[1], v[2], v[3], c, r)
                      [] type = DIAMOND_TYPE -> InDiamond(v[1], v[2], v[3], c, r)
                      [] OTHER -> TRUE}
    IN  {Ravel5(BatchShape(obj), VoxelIndex(i, v[1], v[2], v[3])) : v \in box}

KnownTypeOrAbove(t) == t >= SPHERE_TYPE

\* the if / elif chain over geometry_types[i] reaches a branch other than the else
KnownType(t) == t \in {SPHERE_TYPE, DIAMOND_TYPE, CUBE_TYPE}

\* __generate_solid_figures
generate_solid_figures(obj, geometry_types, cu, ru) ==
    LET c == Centre(obj, cu)
        n == obj.batch_size
        radius == [i \in 1..n |-> Radius(obj, ru[i])]
        drawn == [centre |-> c, radius |-> radius, types |-> geometry_types]
    IN  IF n < 0
        THEN [raised |-> "ValueError", value |-> NoArray, draw |-> NoDraw]
        ELSE IF \E i \in 1..n : ~KnownType(geometry_types[i])
        THEN [raised |-> "NotImplementedError", value |-> NoArray, draw |-> drawn]
        ELSE [raised |-> "none",
              value |-> [shape |-> BatchShape(obj),
                         on |-> UNION {SolidFigure(obj, i - 1, geometry_types[i], c, radius[i]) :
                                          i \in 1..n}],
              draw |-> drawn]

\* the lowest occupied z of line (x, y) of sample i, as the loop over z finds it
FirstHit(arr, i, x, y) ==
    LET zs == {z \in 0..(arr.shape[2] - 1) : At(arr, VoxelIndex(i, x, y, z))}
    IN  {Ravel5(arr.shape, VoxelIndex(i, x, y, z)) : z \in {w \in zs : \A u \in zs : w <= u}}

\* __kinect_scan
kinect_scan(obj, figures) ==
    IF obj.batch_size >= 1 /\ "itertools" \notin ModuleGlobals
    THEN [raised |-> "NameError", value |-> NoArray]
    ELSE [raised |-> "none",
          value |-> [shape |-> figures.shape,
                     on |-> UNION {FirstHit(figures, i, xy[1], xy[2]) :
                                      i \in 0..(obj.batch_size - 1),
                                      xy \in (0..(obj.patch_size - 1)) \X (0..(obj.patch_size - 1))}]]

one_hot_by_position(obj, lbls) ==
    [shape |-> <<obj.batch_size, obj.num_labels>>,
     on |-> {Ravel(<<obj.batch_size, obj.num_labels>>, <<i - 1, (i - 1) % obj.num_labels>>) :
                i \in 1..Len(lbls)}]

\* __one_hot
one_hot(obj, lbls) ==
    [shape |-> <<obj.batch_size, obj.num_labels>>,
     on |-> {Ravel(<<obj.batch_size, obj.num_labels>>, <<i - 1, lbls[i]>>) : i \in 1..Len(lbls)}]

\* arr[:, :, :, lo:hi, :] for 0 <= lo <= hi <= arr.shape[4]
SliceRows(arr, lo, hi) ==
    LET shape == <<arr.shape[1], arr.shape[2], arr.shape[3], hi - lo, arr.shape[5]>>
        kept == {ix \in {Unravel5(arr.shape, f) : f \in arr.on} : lo <= ix[4] /\ ix[4] < hi}
    IN  [shape |-> shape,
         on |-> {Ravel5(shape, <<ix[1], ix[2], ix[3], ix[4] - lo, ix[5]>>) : ix \in kept}]

\* where next_batch cuts the rows for data and for labels
DataSplit(obj) == obj.patch_size \div 2
LabelSplitRoundedUp(obj) == (obj.patch_size + 1) \div 2
LabelSplit(obj) == obj.patch_size \div 2

\* next_batch; gt, cu, ru are what the random generator returns
next_batch(obj, gt, cu, ru) ==
    LET n == obj.batch_size
        spheres == [i \in 1..n |-> SPHERE_TYPE]
        failed(e, d) == [raised |-> e, data |-> NoArray, labels |-> NoArray,
                         figures |-> NoArray, draw |-> d]
    IN  CASE obj.task = CLASSIFICATION_TASK ->
                IF n < 0
                THEN failed("ValueError", NoDraw)
                ELSE The({IF g.raised # "none"
                          THEN failed(g.raised, g.draw)
                          ELSE [raised |-> "none", data |-> g.value,
                                labels |-> one_hot(obj, gt),
                                figures |-> g.value, draw |-> g.draw] :
                          g \in {generate_solid_figures(obj, gt, cu, ru)}})
           [] obj.task = KINECT_COMPLETION_TASK ->
                The({IF g.raised # "none"
                     THEN failed(g.raised, g.draw)
                     ELSE The({IF k.raised # "none"
                               THEN failed(k.raised, g.draw)
                               ELSE [raised |-> "none", data |-> k.value, labels |-> g.value,
                                     figures |-> g.value, draw |-> g.draw] :
                               k \in {kinect_scan(obj, g.value)}}) :
                     g \in {generate_solid_figures(obj, spheres, cu, ru)}})
           [] obj.task = HALF_COMPLETION_TASK ->
                The({IF g.raised # "none"
                     THEN failed(g.raised, g.draw)
                     ELSE [raised |-> "none",
                           data |-> SliceRows(g.value, 0, DataSplit(obj)),
                           labels |-> SliceRows(g.value, LabelSplit(obj), obj.patch_size),
                           figures |-> g.value, draw |-> g.draw] :
                     g \in {generate_solid_figures(obj, spheres, cu, ru)}})
           [] OTHER -> failed("UnboundLocalError", NoDraw)

\* np.random is a deterministic generator whose seed is unknown. rng is what it
\* returns during the coming call of next_batch: gt to randint, cu and ru (numerators
\* over Units) to rand. Any value is possible after construction; during a call the
\* generator moves on to another point of the same space.
TypeDraws(obj) ==
    IF obj.task = CLASSIFICATION_TASK
    THEN [1..obj.batch_size -> 0..(obj.num_labels - 1)]
    ELSE {[i \in 1..obj.batch_size |-> SPHERE_TYPE]}

Drawing(obj) ==
    obj.task \in {CLASSIFICATION_TASK, KINECT_COMPLETION_TASK, HALF_COMPLETION_TASK}
        /\ obj.batch_size >= 0

CentreDraws(obj) ==
    IF obj.centered \/ ~Drawing(obj)
    THEN {<<0, 0, 0>>}
    ELSE IF obj.task = HALF_COMPLETION_TASK
         THEN {0} \X RandSet \X RandSet
         ELSE RandSet \X RandSet \X RandSet

RadiusDraws(obj) ==
    IF ~Drawing(obj)
    THEN {[i \in 1..obj.batch_size |-> 0]}
    ELSE [1..obj.batch_size -> RandSet]

Seeds(obj) == [gt : TypeDraws(obj), cu : CentreDraws(obj), ru : RadiusDraws(obj)]

NoSeed == [gt |-> <<>>, cu |-> <<0, 0, 0>>, ru |-> <<>>]

StepRand(obj, k) == IF Drawing(obj) THEN (k + 1) % Units ELSE k

Advance(obj, r) ==
    [gt |-> [i \in DOMAIN r.gt |->
                IF obj.task = CLASSIFICATION_TASK /\ Drawing(obj)
                THEN (r.gt[i] + 1) % obj.num_labels ELSE r.gt[i]],
     cu |-> IF obj.centered \/ ~Drawing(obj) THEN r.cu
            ELSE IF obj.task = HALF_COMPLETION_TASK
                 THEN <<0, StepRand(obj, r.cu[2]), StepRand(obj, r.cu[3])>>
                 ELSE <<StepRand(obj, r.cu[1]), StepRand(obj, r.cu[2]), StepRand(obj, r.cu[3])>>,
     ru |-> [i \in DOMAIN r.ru |-> StepRand(obj, r.ru[i])]]

\* no Model_Net_Iterator is in use
ModelNetIdle ==
    /\ dataset = NoDataset
    /\ occupancy_grid = NoArray
    /\ batch_x = NoArray
    /\ batch_y = NoArray

\* ------------------------------------------------------------ dataset actions
Init ==
    /\ self = NoObject
    /\ rng = NoSeed
    /\ call = "none"
    /\ raised = "none"
    /\ draw = NoDraw
    /\ solid_figures = NoArray
    /\ data = NoArray
    /\ labels = NoArray
    /\ the_5d_input = NoArray
    /\ args = NoArgs
    /\ result = NoArray
    /\ ModelNetIdle

Construct ==
    /\ call = "none"
    /\ \E c \in ConfigInputs :
          LET r == Init__(c.batch_size, c.patch_size, c.task, c.centered)
          IN  /\ self' = r.self
              /\ raised' = r.raised
              /\ rng' \in Seeds(r.self)
              /\ args' = [NoArgs EXCEPT !.init = c]
    /\ call' = "__init__"
    /\ UNCHANGED <<draw, solid_figures, data, labels, the_5d_input, result>>
    /\ UNCHANGED model_net

NextBatch ==
    /\ self.constructed
    /\ \E r \in {next_batch(self, rng.gt, rng.cu, rng.ru)} :
           /\ raised' = r.raised
           /\ data' = r.data
           /\ labels' = r.labels
           /\ solid_figures' = r.figures
           /\ draw' = r.draw
    /\ rng' = Advance(self, rng)
    /\ call' = "next_batch"
    /\ UNCHANGED <<self, the_5d_input, args, result>>
    /\ UNCHANGED model_net

Next == Construct \/ NextBatch

Spec == Init /\ [][Next]_vars

\* ------------------------------------------------- the rasterizer called directly
\* __generate_solid_figures takes the geometry types from its caller: here it is called
\* on a freshly constructed object with every sequence over 0..3, 3 being no type
RasterizerConfigs ==
    [batch_size : 0..MaxBatch, patch_size : {8, 9},
     task : {KINECT_COMPLETION_TASK, HALF_COMPLETION_TASK}, centered : {TRUE}]

GeometryTypeInputs(obj) == [1..obj.batch_size -> 0..3]

InitRasterizer ==
    /\ \E c \in RasterizerConfigs :
          /\ self = Init__(c.batch_size, c.patch_size, c.task, c.centered).self
          /\ args = [NoArgs EXCEPT !.init = c]
    /\ rng \in Seeds(self)
    /\ call = "__init__"
    /\ raised = "none"
    /\ draw = NoDraw
    /\ solid_figures = NoArray
    /\ data = NoArray
    /\ labels = NoArray
    /\ the_5d_input = NoArray
    /\ result = NoArray
    /\ ModelNetIdle

GenerateSolidFigures ==
    /\ self.constructed
    /\ call = "__init__"
    /\ \E gt \in GeometryTypeInputs(self) :
          \E g \in {generate_solid_figures(self, gt, rng.cu, rng.ru)} :
             /\ raised' = g.raised
             /\ solid_figures' = g.value
             /\ draw' = g.draw
    /\ rng' = Advance(self, rng)
    /\ call' = "__generate_solid_figures"
    /\ UNCHANGED <<self, data, labels, the_5d_input, args, result>>
    /\ UNCHANGED model_net

NextRasterizer == GenerateSolidFigures

SpecRasterizer == InitRasterizer /\ [][NextRasterizer]_vars

\* ---------------------------------------------------------- layer_utils.py
\* the 8-d shape downscale_3d reshapes to (/ is floor division)
BlockShapeFactorFirst(shape, f) ==
    <<shape[1], f, shape[2] \div f, shape[3], f, shape[4] \div f, f, shape[5] \div f>>

BlockShape(shape, f) ==
    <<shape[1], shape[2] \div f, f, shape[3], shape[4] \div f, f, shape[5] \div f, f>>

ReducedAxesCountedFromOne == {2, 5, 7}

\* the axes max(axis=(2, 5, 7)) reduces, counted from 1
ReducedAxes == {3, 6, 8}

\* the sequence s without the entries at the positions of drop
RECURSIVE Without(_, _, _)
Without(s, drop, k) ==
    IF k > Len(s) THEN <<>>
    ELSE (IF k \in drop THEN <<>> ELSE <<s[k]>>) \o Without(s, drop, k + 1)

\* arr.reshape(shape): the buffer is kept, the size must be
Reshape(arr, shape) ==
    IF Size(shape) # Size(arr.shape)
    THEN [raised |-> "ValueError", value |-> NoArray]
    ELSE [raised |-> "none", value |-> [shape |-> shape, on |-> arr.on]]

\* arr.max(axis=axes) of a 0/1 array: a cell of the result is 1 when a cell it covers is
MaxOver(arr, axes) ==
    LET shape == Without(arr.shape, axes, 1)
    IN  [shape |-> shape,
         on |-> {Ravel(shape, Without(Unravel(arr.shape, f), axes, 1)) : f \in arr.on}]

\* the body downscale_3d and max_pool_3d_numpy share
ReshapeMax(arr, f) ==
    The({IF r.raised # "none" THEN r
         ELSE [raised |-> "none", value |-> MaxOver(r.value, ReducedAxes)] :
         r \in {Reshape(arr, BlockShape(arr.shape, f))}})

downscale_3d(arr, downscale_factor) == ReshapeMax(arr, downscale_factor)

max_pool_3d_numpy(arr, downscale_factor) == ReshapeMax(arr, downscale_factor)

\* numpy.nonzero(arr[n, :, 0, :, :]): a tuple of one index array per axis of the
\* 3-d slice (depth, row, column); the arrays are held as the sets of their values
numpy_nonzero(arr, n) ==
    LET cells == {ix \in {Unravel5(arr.shape, f) : f \in arr.on} : ix[1] = n /\ ix[3] = 0}
    IN  <<{ix[2] : ix \in cells}, {ix[4] : ix \in cells}, {ix[5] : ix \in cells}>>

\* tuple[key]: a list is no index of a tuple, and an integer must be below its length
IntKey(k) == [list |-> FALSE, at |-> k]
ListKey(ks) == [list |-> TRUE, at |-> ks]
TupleGetItem(t, key) ==
    IF key.list THEN [raised |-> "TypeError", value |-> {}]
    ELSE IF key.at >= Len(t) THEN [raised |-> "IndexError", value |-> {}]
    ELSE [raised |-> "none", value |-> t[key.at + 1]]

\* what the pass of rotate_3d's loop for sample n raises (lines 71-77); when line 71
\* raises, the lines after it do not run
RotateSample(arr, rotation_matrix, n) ==
    TupleGetItem(numpy_nonzero(arr, n), ListKey(<<3, 4, 1>>)).raised

rotate_3d(arr, rotation_matrix) ==
    IF arr.shape[1] >= 1 /\ RotateSample(arr, rotation_matrix, 0) # "none"
    THEN [raised |-> RotateSample(arr, rotation_matrix, 0), value |-> NoArray]
    ELSE [raised |-> "none", value |-> Zeros(arr.shape)]

MinMaxOfEmptyIsZero(item) == item.raised

\* min() and max() of an index array: an empty one raises
MinMax(item) ==
    IF item.raised # "none" THEN item.raised
    ELSE IF item.value = {} THEN "ValueError" ELSE "none"

\* what the pass of bounding_box_re_center_3d's loop for sample n raises (lines
\* 92-96): the first of the three lines that raises ends the call
ReCenterSample(arr, n) ==
    LET nonzeros == numpy_nonzero(arr, n)
        midZ == MinMax(TupleGetItem(nonzeros, IntKey(1)))
        midX == MinMax(TupleGetItem(nonzeros, IntKey(3)))
        midY == MinMax(TupleGetItem(nonzeros, IntKey(4)))
    IN  IF midZ # "none" THEN midZ ELSE IF midX # "none" THEN midX ELSE midY

bounding_box_re_center_3d(arr) ==
    IF arr.shape[1] >= 1 /\ ReCenterSample(arr, 0) # "none"
    THEN [raised |-> ReCenterSample(arr, 0), value |-> NoArray]
    ELSE [raised |-> "none", value |-> Zeros(arr.shape)]

\* inputs of the transforms: arrays of a few shapes with at most MaxOn cells set
LayerShapes == {<<1, 2, 2, 4, 2>>, <<2, 2, 1, 2, 4>>, <<1, 4, 1, 2, 2>>,
                <<1, 3, 1, 2, 2>>, <<0, 2, 1, 2, 2>>, <<0, 3, 1, 2, 2>>}

RECURSIVE CellSets(_, _)
CellSets(cells, k) ==
    IF k = 0 THEN {{}}
    ELSE LET smaller == CellSets(cells, k - 1)
         IN  smaller \cup {S \cup {a} : S \in smaller, a \in cells}

LayerInputs ==
    UNION {[shape : {sh}, on : CellSets(0..(Size(sh) - 1), MaxOn)] : sh \in LayerShapes}

Factors == 1..MaxFactor

Identity3 == <<<<1, 0, 0>>, <<0, 1, 0>>, <<0, 0, 1>>>>
QuarterTurnZ == <<<<0, -1, 0>>, <<1, 0, 0>>, <<0, 0, 1>>>>
HalfTurnX == <<<<1, 0, 0>>, <<0, -1, 0>>, <<0, 0, -1>>>>
Rotations == {Identity3, QuarterTurnZ, HalfTurnX}

\* ------------------------------------------------------------- layer actions
InitLayers ==
    /\ self = NoObject
    /\ rng = NoSeed
    /\ call = "none"
    /\ raised = "none"
    /\ draw = NoDraw
    /\ solid_figures = NoArray
    /\ data = NoArray
    /\ labels = NoArray
    /\ the_5d_input \in LayerInputs
    /\ args = NoArgs
    /\ result = NoArray
    /\ ModelNetIdle

\* each behaviour applies one transform to the input array
Downscale3d ==
    /\ call = "none"
    /\ \E f \in Factors : \E r \in {downscale_3d(the_5d_input, f)} :
          /\ args' = [NoArgs EXCEPT !.factor = f]
          /\ raised' = r.raised
          /\ result' = r.value
    /\ call' = "downscale_3d"
    /\ UNCHANGED <<self, rng, draw, solid_figures, data, labels, the_5d_input>>
    /\ UNCHANGED model_net

MaxPool3dNumpy ==
    /\ call = "none"
    /\ \E f \in Factors : \E r \in {max_pool_3d_numpy(the_5d_input, f)} :
          /\ args' = [NoArgs EXCEPT !.factor = f]
          /\ raised' = r.raised
          /\ result' = r.value
    /\ call' = "max_pool_3d_numpy"
    /\ UNCHANGED <<self, rng, draw, solid_figures, data, labels, the_5d_input>>
    /\ UNCHANGED model_net

Rotate3d ==
    /\ call = "none"
    /\ \E m \in Rotations : \E r \in {rotate_3d(the_5d_input, m)} :
          /\ args' = [NoArgs EXCEPT !.matrix = m]
          /\ raised' = r.raised
          /\ result' = r.value
    /\ call' = "rotate_3d"
    /\ UNCHANGED <<self, rng, draw, solid_figures, data, labels, the_5d_input>>
    /\ UNCHANGED model_net

BoundingBoxReCenter3d ==
    /\ call = "none"
    /\ \E r \in {bounding_box_re_center_3d(the_5d_input)} :
          /\ raised' = r.raised
          /\ result' = r.value
    /\ args' = NoArgs
    /\ call' = "bounding_box_re_center_3d"
    /\ UNCHANGED <<self, rng, draw, solid_figures, data, labels, the_5d_input>>
    /\ UNCHANGED model_net

NextLayers == Downscale3d \/ MaxPool3dNumpy \/ Rotate3d \/ BoundingBoxReCenter3d

SpecLayers == InitLayers /\ [][NextLayers]_vars

\* ----------------------------------------------------- model_net_dataset.py
\* arr.transpose(axes): axis k of the result is axis axes[k] (counted from 0) of arr
Transpose(arr, axes) ==
    LET shape == [k \in 1..Len(axes) |-> arr.shape[axes[k] + 1]]
    IN  [shape |-> shape,
         on |-> {Ravel(shape, [k \in 1..Len(axes) |-> ix[axes[k] + 1]]) :
                    ix \in {Unravel(arr.shape, f) : f \in arr.on}}]

\* the axes batch_x is returned in
BatchXAxes == <<0, 3, 4, 1, 2>>

\* the axes batch_y is returned in: next transposes batch_x only
BatchYAxes == <<0, 1, 2, 3, 4>>

\* partial_occupancy_grid of every sample: the cells with index below patch_size/2 on
\* axis 2 of the grid (axis 3 of the batch), the others left 0
PartialOccupancyGrid(grids, patch_size) ==
    [shape |-> grids.shape,
     on |-> {f \in grids.on : Unravel(grids.shape, f)[4] < patch_size \div 2}]

\* Model_Net_Iterator.next with no post processor; grids holds, stacked along axis 0,
\* the occupancy grids of the batch's examples, each of shape (patch_size, patch_size,
\* patch_size, 1)
Model_Net_Iterator_next(ds, grids) ==
    [raised |-> "none",
     batch_x |-> Transpose(grids, BatchXAxes),
     batch_y |-> Transpose(PartialOccupancyGrid(grids, ds.patch_size), BatchYAxes)]

\* inputs: batches of 1..MaxBatch grids of side 2 or 3 with at most MaxOn cells set
ModelNetPatchSizes == {2, 3}

ModelNetBatches ==
    UNION {[shape : {<<b, p, p, p, 1>>}, on : CellSets(0..(b * p * p * p - 1), MaxOn)] :
              b \in 1..MaxBatch, p \in ModelNetPatchSizes}

InitModelNet ==
    /\ self = NoObject
    /\ rng = NoSeed
    /\ call = "none"
    /\ raised = "none"
    /\ draw = NoDraw
    /\ solid_figures = NoArray
    /\ data = NoArray
    /\ labels = NoArray
    /\ the_5d_input = NoArray
    /\ args = NoArgs
    /\ result = NoArray
    /\ occupancy_grid \in ModelNetBatches
    /\ dataset = [patch_size |-> occupancy_grid.shape[2]]
    /\ batch_x = NoArray
    /\ batch_y = NoArray

ModelNetNext ==
    /\ call = "none"
    /\ \E r \in {Model_Net_Iterator_next(dataset, occupancy_grid)} :
          /\ raised' = r.raised
          /\ batch_x' = r.batch_x
          /\ batch_y' = r.batch_y
    /\ call' = "next"
    /\ UNCHANGED <<self, rng, draw, solid_figures, data, labels, the_5d_input, args, result,
                   dataset, occupancy_grid>>

NextModelNet == ModelNetNext

SpecModelNet == InitModelNet /\ [][NextModelNet]_vars

\* ======================================================================
\* Properties of the batch synthesis
\* ======================================================================
Returned == call = "next_batch" /\ raised = "none"

\* index tuples <<sample, depth, channel, row, column>> of the cells that are 1
Occupied(arr) == {Unravel5(arr.shape, f) : f \in arr.on}

\* n is an integer of 0..p-1 with centre - radius <= n <= centre + radius, that is, of
\* [max(ceil(c - r), 0), min(floor(c + r), p - 1)]
InClipped(n, p, c, r) ==
    0 <= n /\ n <= p - 1 /\ c - r <= n * Units /\ n * Units <= c + r

ClippedRange(p, c, r) == {n \in 0..(p - 1) : InClipped(n, p, c, r)}

Sq(a) == a * a

\* the containment predicate of a geometry type at voxel (x, y, z)
Contains(type, x, y, z, c, r) ==
    CASE type = SPHERE_TYPE ->
            Sq(x * Units - c[1]) + Sq(y * Units - c[2]) + Sq(z * Units - c[3]) <= Sq(r)
      [] type = DIAMOND_TYPE ->
            Abs(x * Units - c[1]) + Abs(y * Units - c[2]) + Abs(z * Units - c[3]) <= r
      [] type = CUBE_TYPE ->
            /\ Abs(x * Units - c[1]) <= r
            /\ Abs(y * Units - c[2]) <= r
            /\ Abs(z * Units - c[3]) <= r

\* the cells of sample i (0-based) of a batch of volumes that a shape of this type,
\* centre and radius covers, found by testing the clipped box
ShapeCells(shape, i, type, c, r) ==
    {Ravel5(shape, <<i, v[3], 0, v[1], v[2]>>) :
        v \in {w \in ClippedRange(shape[4], c[1], r) \X ClippedRange(shape[5], c[2], r)
                        \X ClippedRange(shape[2], c[3], r) :
                    Contains(type, w[1], w[2], w[3], c, r)}}

\* the cells of sample i that are 1
SampleCells(arr, i) ==
    {f \in arr.on : f \div (Size(arr.shape) \div arr.shape[1]) = i}

\* C1: every voxel (x, y, z) the rasterizer marks occupied lies in the clipped bounding
\* box [max(ceil(c-radius),0), min(floor(c+radius),patch_size-1)] on every axis (so
\* every voxel outside it is unoccupied) and satisfies the containment predicate of the
\* sample's geometry type (sphere, diamond, cube).
C1_OccupiedVoxelsAreContained ==
    Returned /\ solid_figures # NoArray =>
        \A ix \in Occupied(solid_figures) :
            LET i == ix[1] + 1
                c == draw.centre
                r == draw.radius[i]
            IN  /\ ix[3] = 0
                /\ InClipped(ix[4], self.patch_size, c[1], r)
                /\ InClipped(ix[5], self.patch_size, c[2], r)
                /\ InClipped(ix[2], self.patch_size, c[3], r)
                /\ Contains(draw.types[i], ix[4], ix[5], ix[2], c, r)

C1_Witness ==
    /\ Returned
    /\ ~self.centered
    /\ self.task = CLASSIFICATION_TASK
    /\ self.batch_size = 2
    /\ draw.types = <<DIAMOND_TYPE, SPHERE_TYPE>>
    /\ draw.centre[1] # draw.centre[3]
    /\ SampleCells(solid_figures, 0) # {}
    /\ SampleCells(solid_figures, 1) # {}

\* the cells of the integer box lo..hi on every axis, in sample i
BoxCells(shape, i, lo, hi) ==
    {Ravel5(shape, <<i, z, 0, x, y>>) : x \in lo..hi, y \in lo..hi, z \in lo..hi}

\* C2: a CUBE occupies exactly the integer box [ceil(c-radius), floor(c+radius)]
\* clipped to [0, patch_size-1] on each axis and no other voxel; with centre (7,7,7),
\* radius 3 and patch_size 16 that is [4,10]x[4,10]x[4,10], 343 voxels.
C2_CubeFillsClippedBox ==
    Returned /\ solid_figures # NoArray =>
        \A i \in 1..self.batch_size :
            draw.types[i] = CUBE_TYPE =>
                LET c == draw.centre
                    r == draw.radius[i]
                    p == self.patch_size
                    cells == SampleCells(solid_figures, i - 1)
                IN  /\ cells = {Ravel5(solid_figures.shape, <<i - 1, z, 0, x, y>>) :
                                    x \in ClippedRange(p, c[1], r),
                                    y \in ClippedRange(p, c[2], r),
                                    z \in ClippedRange(p, c[3], r)}
                    /\ (p = 16 /\ c = <<7 * Units, 7 * Units, 7 * Units>> /\ r = 3 * Units) =>
                            /\ cells = BoxCells(solid_figures.shape, i - 1, 4, 10)
                            /\ Cardinality(cells) = 343

C2_Witness ==
    /\ Returned
    /\ self.patch_size = 16
    /\ self.batch_size = 2
    /\ draw.types[2] = CUBE_TYPE
    /\ draw.centre = <<7 * Units, 7 * Units, 7 * Units>>
    /\ draw.radius[2] = 3 * Units
    /\ Cardinality(SampleCells(solid_figures, 1)) = 343

\* the first-hit scan of a volume: of every line (sample, row, column) the occupied
\* cell of lowest depth index, and nothing else
ScanOf(vol) ==
    [shape |-> vol.shape,
     on |-> {f \in vol.on :
                LET ix == Unravel5(vol.shape, f)
                IN  \A z \in 0..(ix[2] - 1) :
                        Ravel5(vol.shape, <<ix[1], z, ix[3], ix[4], ix[5]>>) \notin vol.on}]

\* the depth indices occupied in line (row x, column y) of sample i
LineOf(arr, i, x, y) ==
    {z \in 0..(arr.shape[2] - 1) : Ravel5(arr.shape, <<i, z, 0, x, y>>) \in arr.on}

\* C3: the scan returns a grid of the same shape with at most one occupied depth index
\* per (sample, row, column): the minimum occupied depth index of the input line, or
\* none when the input line is empty.
C3_ScanKeepsFirstHit ==
    call = "next_batch" /\ self.task = KINECT_COMPLETION_TASK /\ self.batch_size >= 0 =>
        /\ raised = "none"
        /\ data.shape = labels.shape
        /\ \A i \in 0..(self.batch_size - 1), x \in 0..(self.patch_size - 1),
              y \in 0..(self.patch_size - 1) :
                LET zin == LineOf(labels, i, x, y)
                    zout == LineOf(data, i, x, y)
                IN  /\ Cardinality(zout) <= 1
                    /\ zin = {} => zout = {}
                    /\ zin # {} => zout = {z \in zin : \A u \in zin : z <= u}

\* C4: with task KINECT_COMPLETION next_batch returns (data, label), label the full
\* sphere volume of every sample and data the first-hit scan of label; for the sphere
\* centred at (7,7,7) with radius 5 in a 16^3 grid, line (x=7, y=7) of data holds the
\* one depth index 2, the smallest z with (z-7)^2 <= 25.
C4_KinectPairsScanWithSphere ==
    call = "next_batch" /\ self.task = KINECT_COMPLETION_TASK /\ self.batch_size >= 0 =>
        /\ raised = "none"
        /\ labels.shape = BatchShape(self)
        /\ \A i \in 1..self.batch_size :
              SampleCells(labels, i - 1) =
                  ShapeCells(labels.shape, i - 1, SPHERE_TYPE, draw.centre, draw.radius[i])
        /\ data = ScanOf(labels)
        /\ \A i \in 1..self.batch_size :
              (/\ self.patch_size = 16
               /\ draw.centre = <<7 * Units, 7 * Units, 7 * Units>>
               /\ draw.radius[i] = 5 * Units) => LineOf(data, i - 1, 7, 7) = {2}

\* C5: with task CLASSIFICATION data has shape (batch_size, patch_size, 1, patch_size,
\* patch_size) and label has shape (batch_size, 3); every row of label has exactly one
\* True, at the index of the geometry type drawn for the sample, and the sample's
\* volume is the rasterization of that type.
C5_ClassificationLabelsMatchData ==
    Returned /\ self.task = CLASSIFICATION_TASK =>
        /\ data.shape = <<self.batch_size, self.patch_size, 1, self.patch_size, self.patch_size>>
        /\ labels.shape = <<self.batch_size, 3>>
        /\ labels.on \subseteq 0..(3 * self.batch_size - 1)
        /\ data.on \subseteq 0..(Size(data.shape) - 1)
        /\ \A i \in 1..self.batch_size :
              /\ {t \in 0..2 : Ravel(labels.shape, <<i - 1, t>>) \in labels.on} = {draw.types[i]}
              /\ SampleCells(data, i - 1) =
                    ShapeCells(data.shape, i - 1, draw.types[i], draw.centre, draw.radius[i])

C5_Witness ==
    /\ Returned
    /\ self.task = CLASSIFICATION_TASK
    /\ self.patch_size = 16
    /\ self.batch_size = 2
    /\ draw.types = <<CUBE_TYPE, DIAMOND_TYPE>>
    /\ labels.on = {Ravel(labels.shape, <<0, 2>>), Ravel(labels.shape, <<1, 1>>)}
    /\ data.shape = <<2, 16, 1, 16, 16>>

\* a then b along the row axis
ConcatRows(a, b) ==
    LET shape == <<a.shape[1], a.shape[2], a.shape[3], a.shape[4] + b.shape[4], a.shape[5]>>
        put(arr, off) == {Ravel5(shape, <<ix[1], ix[2], ix[3], ix[4] + off, ix[5]>>) :
                             ix \in Occupied(arr)}
    IN  [shape |-> shape, on |-> put(a, 0) \cup put(b, a.shape[4])]

\* C6: with task HALF_COMPLETION, for even and odd patch_size, data holds rows
\* [0, floor(patch_size/2)) of the full sphere volume, label holds rows
\* [floor(patch_size/2), patch_size), and data followed by label along the row axis is
\* the full volume: no voxel lost, duplicated or altered.
C6_HalvesReconstructVolume ==
    Returned /\ self.task = HALF_COMPLETION_TASK =>
        LET h == self.patch_size \div 2
            p == self.patch_size
        IN  /\ solid_figures.shape = <<self.batch_size, p, 1, p, p>>
            /\ data.shape = <<self.batch_size, p, 1, h, p>>
            /\ labels.shape = <<self.batch_size, p, 1, p - h, p>>
            /\ \A ix \in Occupied(solid_figures) :
                  IF ix[4] < h
                  THEN Ravel5(data.shape, ix) \in data.on
                  ELSE Ravel5(labels.shape, <<ix[1], ix[2], ix[3], ix[4] - h, ix[5]>>) \in labels.on
            /\ ConcatRows(data, labels) = solid_figures

C6_Witness ==
    /\ Returned
    /\ self.task = HALF_COMPLETION_TASK
    /\ self.patch_size = 9
    /\ self.batch_size = 2
    /\ data.on # {}
    /\ labels.on # {}
    /\ \E ix \in Occupied(solid_figures) : ix[4] = 4

\* ======================================================================
\* Properties of the voxel transforms
\* ======================================================================
Divides(f, n) == n % f = 0

\* C7: when the factor divides the three spatial axis lengths, downscale_3d (and
\* max_pool_3d_numpy, the same body) returns a grid of shape (batch, depth/factor,
\* channel, rows/factor, cols/factor) whose every voxel is the OR of the
\* factor x factor x factor block of input voxels it covers, within its own sample and
\* channel.
C7_DownscaleIsBlockMax ==
    LET in == the_5d_input.shape
        f == args.factor
    IN  (/\ call \in {"downscale_3d", "max_pool_3d_numpy"}
         /\ Divides(f, in[2]) /\ Divides(f, in[4]) /\ Divides(f, in[5])) =>
            /\ raised = "none"
            /\ result.shape = <<in[1], in[2] \div f, in[3], in[4] \div f, in[5] \div f>>
            /\ result.on \subseteq 0..(Size(result.shape) - 1)
            /\ \A n \in 0..(in[1] - 1), z \in 0..((in[2] \div f) - 1), c \in 0..(in[3] - 1),
                  x \in 0..((in[4] \div f) - 1), y \in 0..((in[5] \div f) - 1) :
                    At(result, <<n, z, c, x, y>>) <=>
                        \E dz \in 0..(f - 1), dx \in 0..(f - 1), dy \in 0..(f - 1) :
                            At(the_5d_input, <<n, z * f + dz, c, x * f + dx, y * f + dy>>)

C7_Witness ==
    /\ call = "downscale_3d"
    /\ raised = "none"
    /\ args.factor = 2
    /\ the_5d_input.shape = <<1, 2, 2, 4, 2>>
    /\ the_5d_input.on = {Ravel5(the_5d_input.shape, <<0, 0, 1, 2, 0>>),
                          Ravel5(the_5d_input.shape, <<0, 1, 1, 3, 1>>)}
    /\ result.shape = <<1, 1, 2, 2, 1>>
    /\ result.on = {Ravel5(result.shape, <<0, 0, 1, 1, 0>>)}

\* the cells of sample n, channel 0, as voxels <<x, y, z>>
Voxels(arr, n) ==
    {<<ix[4], ix[5], ix[2]>> : ix \in {jx \in Occupied(arr) : jx[1] = n /\ jx[3] = 0}}

\* the shift that moves the midpoint of lo..hi onto the midpoint of an axis of length len
ShiftOf(len, lo, hi) == ((len - 1) \div 2) - ((lo + hi) \div 2)

Lowest(S) == CHOOSE a \in S : \A b \in S : a <= b
Highest(S) == CHOOSE a \in S : \A b \in S : a >= b

\* sample n with every axis rolled by the shift of its bounding box
Recentred(arr, n) ==
    LET v == Voxels(arr, n)
        sx == ShiftOf(arr.shape[4], Lowest({w[1] : w \in v}), Highest({w[1] : w \in v}))
        sy == ShiftOf(arr.shape[5], Lowest({w[2] : w \in v}), Highest({w[2] : w \in v}))
        sz == ShiftOf(arr.shape[2], Lowest({w[3] : w \in v}), Highest({w[3] : w \in v}))
    IN  {Ravel5(arr.shape, <<n, (w[3] + sz) % arr.shape[2], 0, (w[1] + sx) % arr.shape[4],
                            (w[2] + sy) % arr.shape[5]>>) : w \in v}

\* C8: for every sample with at least one occupied voxel, independently of the other
\* samples, bounding_box_re_center_3d returns the sample rolled (with wrap-around) on
\* each spatial axis by the shift that moves the midpoint of its bounding box onto the
\* midpoint of the grid.
C8_ReCenterRollsEachSample ==
    (/\ call = "bounding_box_re_center_3d"
     /\ the_5d_input.shape[3] = 1
     /\ \A n \in 0..(the_5d_input.shape[1] - 1) : Voxels(the_5d_input, n) # {}) =>
        /\ raised = "none"
        /\ result.shape = the_5d_input.shape
        /\ result.on = UNION {Recentred(the_5d_input, n) : n \in 0..(the_5d_input.shape[1] - 1)}

\* the matrix m applied to the column vector v
Apply(m, v) == [i \in 1..3 |-> m[i][1] * v[1] + m[i][2] * v[2] + m[i][3] * v[3]]

\* voxel <<x, y, z>> lies in the grid
InGrid(shape, v) ==
    /\ 0 <= v[1] /\ v[1] < shape[4]
    /\ 0 <= v[2] /\ v[2] < shape[5]
    /\ 0 <= v[3] /\ v[3] < shape[2]

\* C9: rotate_3d returns, without raising, the grid occupied exactly at the cells
\* R.(x, y, z) of the occupied input voxels (x, y, z) that lie within the grid on all
\* three axes; every other cell is empty.
C9_RotateMovesOccupiedVoxels ==
    call = "rotate_3d" =>
        /\ raised = "none"
        /\ result.shape = the_5d_input.shape
        /\ result.on =
              UNION {{Ravel5(the_5d_input.shape, <<n, w[3], 0, w[1], w[2]>>) :
                         w \in {u \in {Apply(args.matrix, v) : v \in Voxels(the_5d_input, n)} :
                                    InGrid(the_5d_input.shape, u)}} :
                     n \in 0..(the_5d_input.shape[1] - 1)}

\* C10: rotate_3d rotates about the centre of the grid: an occupied voxel at offset d
\* from the centre ((X-1)/2, (Y-1)/2, (Z-1)/2) is mapped to offset R.d from the centre
\* (offsets are held doubled, so that they are integers).
C10_RotateIsAboutGridCentre ==
    call = "rotate_3d" =>
        /\ raised = "none"
        /\ \A n \in 0..(the_5d_input.shape[1] - 1) : \A v \in Voxels(the_5d_input, n) :
              LET centre2 == <<the_5d_input.shape[4] - 1, the_5d_input.shape[5] - 1,
                               the_5d_input.shape[2] - 1>>
                  d2 == [i \in 1..3 |-> 2 * v[i] - centre2[i]]
                  e2 == Apply(args.matrix, d2)
                  t2 == [i \in 1..3 |-> e2[i] + centre2[i]]
                  t == [i \in 1..3 |-> t2[i] \div 2]
              IN  ((\A i \in 1..3 : t2[i] % 2 = 0) /\ InGrid(the_5d_input.shape, t)) =>
                      At(result, <<n, t[3], 0, t[1], t[2]>>)

\* C11: re-centering is idempotent: for a batch whose every sample has an occupied
\* voxel, bounding_box_re_center_3d returns a grid g1, and applied to g1 it returns g1.
C11_ReCenterIsIdempotent ==
    (/\ call = "bounding_box_re_center_3d"
     /\ \A n \in 0..(the_5d_input.shape[1] - 1) : Voxels(the_5d_input, n) # {}) =>
        /\ raised = "none"
        /\ bounding_box_re_center_3d(result).raised = "none"
        /\ bounding_box_re_center_3d(result).value = result

\* C12: downscale_3d with factor 1 returns its input unchanged, and downscale_3d of an
\* all-empty grid, with a factor dividing the three spatial lengths, is the all-empty
\* grid of the reduced shape.
C12_DownscaleByOneAndOfEmpty ==
    LET in == the_5d_input.shape
        f == args.factor
    IN  call = "downscale_3d" =>
            /\ f = 1 => raised = "none" /\ result = the_5d_input
            /\ (/\ the_5d_input.on = {}
                /\ Divides(f, in[2]) /\ Divides(f, in[4]) /\ Divides(f, in[5])) =>
                    /\ raised = "none"
                    /\ result = Zeros(<<in[1], in[2] \div f, in[3], in[4] \div f, in[5] \div f>>)

C12_Witness ==
    /\ call = "downscale_3d"
    /\ raised = "none"
    /\ args.factor = 1
    /\ the_5d_input.shape = <<2, 2, 1, 2, 4>>
    /\ Cardinality(the_5d_input.on) = 2
    /\ result = the_5d_input

\* C15: when the factor does not divide the length of one of the three spatial axes,
\* downscale_3d raises and returns no grid.
C15_DownscaleRejectsUnevenFactor ==
    LET in == the_5d_input.shape
        f == args.factor
    IN  (/\ call = "downscale_3d"
         /\ ~(Divides(f, in[2]) /\ Divides(f, in[4]) /\ Divides(f, in[5]))) =>
            /\ raised # "none"
            /\ result = NoArray

\* C16: for a batch holding a sample with no occupied voxel, bounding_box_re_center_3d
\* raises and returns no grid; when the first sample is the empty one, the error is the
\* ValueError of min() over no indices.
C16_ReCenterOfEmptySampleRaises ==
    (/\ call = "bounding_box_re_center_3d"
     /\ \E n \in 0..(the_5d_input.shape[1] - 1) : Voxels(the_5d_input, n) = {}) =>
        /\ raised \in {"ValueError", "IndexError"}
        /\ result = NoArray
        /\ Voxels(the_5d_input, 0) = {} => raised = "ValueError"

C16_Witness ==
    /\ call = "bounding_box_re_center_3d"
    /\ the_5d_input.shape = <<2, 2, 1, 2, 4>>
    /\ Voxels(the_5d_input, 0) = {}
    /\ Voxels(the_5d_input, 1) # {}
    /\ raised = "ValueError"
    /\ result = NoArray

\* ======================================================================
\* Properties of construction and of failing calls
\* ======================================================================
\* C13: __init__ raises exactly when patch_size <= 7: such a call raises
\* NotImplementedError and sets no field, and a call with patch_size >= 8 returns with
\* the fields set from its arguments.
C13_ConstructionRejectsSmallPatch ==
    call = "__init__" =>
        IF args.init.patch_size <= 7
        THEN raised = "NotImplementedError" /\ self = NoObject
        ELSE /\ raised = "none"
             /\ self = [constructed |-> TRUE, num_labels |-> 3,
                        batch_size |-> args.init.batch_size,
                        patch_size |-> args.init.patch_size,
                        task |-> args.init.task, centered |-> args.init.centered]

C13_Witness ==
    /\ call = "__init__"
    /\ args.init.patch_size = 7
    /\ args.init.batch_size = 1
    /\ raised = "NotImplementedError"
    /\ self = NoObject

\* C14: when the type of a sample of the batch is none of SPHERE, DIAMOND, CUBE,
\* __generate_solid_figures raises NotImplementedError and returns no volume.
C14_UnknownGeometryRaises ==
    (/\ call = "__generate_solid_figures"
     /\ \E i \in 1..self.batch_size :
           draw.types[i] \notin {SPHERE_TYPE, DIAMOND_TYPE, CUBE_TYPE}) =>
        /\ raised = "NotImplementedError"
        /\ solid_figures = NoArray

C14_Witness ==
    /\ call = "__generate_solid_figures"
    /\ self.batch_size = 2
    /\ draw.types = <<SPHERE_TYPE, 3>>
    /\ raised = "NotImplementedError"
    /\ solid_figures = NoArray

\* C17: __init__ with batch_size <= 0 raises and sets no field.
C17_ConstructionRejectsNonPositiveBatch ==
    (call = "__init__" /\ args.init.batch_size <= 0) =>
        /\ raised # "none"
        /\ self = NoObject

\* C18: a call of next_batch either returns data and labels that both hold exactly
\* batch_size samples, or raises and returns nothing.
C18_NextBatchIsAllOrNothing ==
    call = "next_batch" =>
        \/ /\ raised = "none"
           /\ self.batch_size >= 0
           /\ data.shape[1] = self.batch_size
           /\ labels.shape[1] = self.batch_size
           /\ data.on \subseteq 0..(Size(data.shape) - 1)
           /\ labels.on \subseteq 0..(Size(labels.shape) - 1)
        \/ /\ raised # "none"
           /\ data = NoArray
           /\ labels = NoArray

C18_Witness ==
    /\ call = "next_batch"
    /\ raised = "none"
    /\ self.task = HALF_COMPLETION_TASK
    /\ self.batch_size = 2
    /\ data.shape[1] = 2
    /\ labels.shape[1] = 2
    /\ \E f \in labels.on : Unravel5(labels.shape, f)[1] = 1

\* C19: with centered set, every coordinate of the centre the samples of a batch are
\* rasterized about is (patch_size - 1) / 2, whatever the random draws.
C19_CentredCentreIsMidpoint ==
    (call = "next_batch" /\ self.centered /\ self.batch_size >= 1 /\ draw.centre # <<>>) =>
        \A k \in 1..3 : 2 * draw.centre[k] = Units * (self.patch_size - 1)

\* C20: with centered unset, the one centre of the batch has its drawn coordinates in
\* [0, patch_size - 1), and for HALF_COMPLETION its row coordinate is not drawn but is
\* the midpoint (patch_size - 1) / 2.
C20_UncentredCentreIsDrawnOncePerBatch ==
    (call = "next_batch" /\ ~self.centered /\ self.batch_size >= 1 /\ draw.centre # <<>>) =>
        /\ \A k \in 1..3 :
              (k = 1 /\ self.task = HALF_COMPLETION_TASK)
                  \/ (0 <= draw.centre[k] /\ draw.centre[k] < Units * (self.patch_size - 1))
        /\ self.task = HALF_COMPLETION_TASK =>
              2 * draw.centre[1] = Units * (self.patch_size - 1)

\* ======================================================================
\* Properties of the draws and of the bounding box
\* ======================================================================
\* C21: in every call of next_batch that reaches the rasterizer, whatever the task and
\* the centering mode, each sample has a radius of its own with 3 <= radius <
\* patch_size / 2.
C21_RadiusIsInRange ==
    call = "next_batch" =>
        /\ raised \in {"none", "NameError"} => Len(draw.radius) = self.batch_size
        /\ \A i \in DOMAIN draw.radius :
              /\ 3 * Units <= draw.radius[i]
              /\ 2 * draw.radius[i] < Units * self.patch_size

C21_Witness ==
    /\ Returned
    /\ ~self.centered
    /\ self.task = HALF_COMPLETION_TASK
    /\ self.batch_size = 2
    /\ draw.radius[1] = 3 * Units
    /\ draw.radius[2] > 3 * Units

\* the cells of sample i (0-based) that a shape of this type, centre and radius covers,
\* found by testing every voxel of the grid
WholeGridCells(shape, i, type, c, r) ==
    {Ravel5(shape, <<i, v[3], 0, v[1], v[2]>>) :
        v \in {w \in (0..(shape[4] - 1)) \X (0..(shape[5] - 1)) \X (0..(shape[2] - 1)) :
                    Contains(type, w[1], w[2], w[3], c, r)}}

\* C22: the bounding box loses nothing: a SPHERE or DIAMOND sample is occupied at
\* exactly the voxels of the whole grid that satisfy the type's containment predicate.
C22_BoundingBoxLosesNothing ==
    (call = "next_batch" /\ solid_figures # NoArray) =>
        \A i \in 1..self.batch_size :
            draw.types[i] \in {SPHERE_TYPE, DIAMOND_TYPE} =>
                SampleCells(solid_figures, i - 1) =
                    WholeGridCells(solid_figures.shape, i - 1, draw.types[i], draw.centre,
                                   draw.radius[i])

C22_Witness ==
    /\ call = "next_batch"
    /\ ~self.centered
    /\ self.batch_size = 2
    /\ draw.types = <<SPHERE_TYPE, DIAMOND_TYPE>>
    /\ draw.centre[2] = 0
    /\ draw.centre[3] > 0
    /\ Cardinality(SampleCells(solid_figures, 1)) > 1
    /\ Cardinality(SampleCells(solid_figures, 0)) > Cardinality(SampleCells(solid_figures, 1))

\* C23: with batch_size >= 1, for every geometry type, both centering modes and every
\* draw of the centre and the radius, every sample of the rasterized volume has an
\* occupied voxel.
C23_EverySampleIsOccupied ==
    (call = "next_batch" /\ solid_figures # NoArray /\ self.batch_size >= 1) =>
        \A i \in 0..(self.batch_size - 1) : SampleCells(solid_figures, i) # {}

C23_Witness ==
    /\ call = "next_batch"
    /\ ~self.centered
    /\ self.task = CLASSIFICATION_TASK
    /\ self.batch_size = 2
    /\ draw.types = <<CUBE_TYPE, SPHERE_TYPE>>
    /\ draw.centre = <<0, 0, 0>>
    /\ draw.radius = <<3 * Units, 3 * Units>>
    /\ SampleCells(solid_figures, 0) # {}
    /\ SampleCells(solid_figures, 1) # {}

\* ======================================================================
\* Properties of the ModelNet iterator
\* ======================================================================
\* C24: next returns batch_x and batch_y of the same shape and axis layout, batch_y
\* being batch_x with every voxel at index >= patch_size / 2 on the split axis cleared
\* and the voxels below that index unchanged (the split axis is axis 1 of batch_x).
C24_BatchYIsHalfOfBatchX ==
    call = "next" =>
        /\ raised = "none"
        /\ batch_y.shape = batch_x.shape
        /\ batch_y.on = {f \in batch_x.on :
                            Unravel(batch_x.shape, f)[2] < dataset.patch_size \div 2}

====
